---- MODULE Spec2Model ----
(***************************************************************************)
(* Model of the uci package: the go-cmd derived line buffer                *)
(* (src/stream.go, OutputStream) and the engine session (src/uci.go,       *)
(* Engine).  Go byte slices are 0-based; the helpers At and Slice keep the *)
(* source's 0-based offsets so the arithmetic reads as in the code.        *)
(***************************************************************************)
EXTENDS Integers, Sequences, FiniteSets, TLC

\* ------------------------------------------------------------------ bounds
\* size of the scratch region handed to NewOutputStream (lineBufSize)
BufSize == 2
\* longest chunk handed to one Write call
MaxChunk == 3
\* total number of bytes offered to the line buffer
MaxStream == 4

\* ------------------------------------------------------------ byte values
LF == 10
CR == 13
Bytes == {LF, CR, 97, 98}

VARIABLES
  \* OutputStream (src/stream.go)
  buf,        \* rw.buf: the scratch region, BufSize bytes, 0 when never written
  lastChar,   \* rw.lastChar: number of buffered bytes of the incomplete line
  sink,       \* every line sent on rw.streamChan, in order
  accepted,   \* history: the bytes Write has reported as accepted (p[:n])
  overflowed, \* history: some Write has failed with ErrLineBufferOverflow
  lastWrite   \* the argument and the results of the most recent Write

streamVars == <<buf, lastChar, sink, accepted, overflowed, lastWrite>>

\* --------------------------------------------------------------- bounds
\* number of keyword/payload groups after "info" in a generated info line
MaxFields == 2
\* number of words after "bestmove" in a generated bestmove line
MaxMoveWords == 3

\* number of successful SendOption calls
MaxOptCalls == 3
\* largest infoBufCap handed to NewEngineFromPath
MaxCap == 2
\* number of info lines the engine emits in the info-buffer specification
MaxInfoLines == 3
\* largest argument of GetInfo
MaxLast == 3
\* number of lines the engine emits in the rendezvous specification
MaxEmit == 3

VARIABLES
  setOptions,   \* e.setOptions
  optHistory,   \* history: the (name, value) of every SendOption that returned nil
  stdinBroken,  \* writes to e.stdin fail (the pipe is closed)
  optErr,       \* the most recent SendOption returned an error
  infoBuf,      \* e.infoBuf
  infoBufCap,   \* e.infoBufCap
  lastBestMove, \* e.lastBestMove
  started,      \* StartInfoCollection has made e.chans
  bmChan,       \* contents of e.chans.bestMove (capacity 16)
  crashed,      \* a goroutine has panicked: the Go process is gone
  pline,        \* the line handed to parseStdout
  pstate,       \* "ready" before parseStdout(pline), "done" after it returned
  perr,         \* parseStdout returned a non-nil error
  infoParsed,   \* history: every Info appended to infoBuf, in order
  giRes,        \* argument and outcome of the most recent GetInfo
  stdoutQ,      \* lines written by the engine that the reader has not read yet
  emitted,      \* number of lines the engine has written
  reader,       \* the reader goroutine: where it stands and the value b it holds
  waiter,       \* the caller of WaitBestMove: where it stands and what it got
  nBest,        \* history: number of bestmove lines the reader has taken up
  fresh,        \* history: the last bestmove is published and nobody received it
  nRecv         \* history: number of values received from e.chans.bestMove

optVars == <<setOptions, optHistory, stdinBroken, optErr>>
coreVars == <<infoBuf, infoBufCap, lastBestMove, started, bmChan, crashed>>
parseVars == <<pline, pstate, perr>>
infoVars == <<infoParsed, giRes>>
rvVars == <<stdoutQ, emitted, reader, waiter, nBest, fresh, nRecv>>

\* number of tokens after "option" in a generated option line
MaxOptTokens == 4
\* number of UCI() calls in the handshake specification
MaxUCICalls == 2
\* number of WaitReadyOK calls in the readyok specification
MaxReadyCalls == 2
\* number of lines the engine emits in the readyok specification
MaxReadyEmit == 3
\* number of lines the engine emits in the quit specification
MaxQuitEmit == 2
\* number of SendQuit calls in the quit specification
MaxQuitCalls == 2

VARIABLES
  consumed,       \* history: every line the reader goroutine has taken
  wr,             \* the caller of WaitReadyOK: where it stands and what it got
  discarded,      \* history: the lines WaitReadyOK read itself and dropped
  nReady,         \* number of WaitReadyOK calls made
  owed,           \* isready commands the engine has not answered yet
  engName,        \* e.name
  author,         \* e.author
  dName,          \* e.dName
  defaultOptions, \* e.defaultOptions
  uci,            \* the caller of UCI(): where it stands and what it read
  engineTodo,     \* the lines the engine has still to write for a "uci"
  nUCI,           \* number of UCI() calls made
  oline,          \* the tokens handed to parseUCILine
  ostate,         \* "ready" before parseUCILine(oline), "done" after it
  quit,           \* the caller of SendQuit: where it stands and what it got
  engine,         \* the engine process: "running", "quitting" or "exited"
  pipeClosed,     \* cmd.Wait has closed the read end of the stdout pipe
  nQuit,          \* number of SendQuit calls made
  wc              \* the caller of WaitCollection: where it stands, what it got

readyVars == <<wr, discarded, nReady, owed>>
uciVars == <<engName, author, dName, defaultOptions, uci, engineTodo, nUCI,
             oline, ostate>>
quitVars == <<quit, engine, pipeClosed, nQuit, wc>>

\* number of engines in a generated config file
MaxEngines == 2

VARIABLES
  config,         \* the config file NewEnginesFromConfig is given
  cfg             \* NewEnginesFromConfig: where it stands and what it has done

cfgVars == <<config, cfg>>

\* the caller threads of a session used from several goroutines
ConcThreads == {"t1", "t2"}

VARIABLES
  thr             \* where each caller thread stands in its SendOption

concVars == <<thr>>

\* number of StartInfoCollection calls made on one session
MaxStarts == 2

VARIABLES
  rst             \* a session on which StartInfoCollection is called again

restartVars == <<rst>>
tailVars == <<cfgVars, concVars, restartVars>>
extVars == <<consumed, readyVars, uciVars, quitVars, tailVars>>
vars == <<streamVars, optVars, coreVars, parseVars, infoVars, rvVars, extVars>>

\* ------------------------------------------------------- slice helpers
\* p[k] of a Go slice
At(p, k) == p[k + 1]
\* p[a:b] of a Go slice
Slice(p, a, b) == SubSeq(p, a + 1, b)

\* bytes.IndexByte: offset of the first c in s, -1 when absent
IndexByte(s, c) ==
  IF \E i \in 1..Len(s) : s[i] = c
  THEN (CHOOSE i \in 1..Len(s) : s[i] = c /\ \A j \in 1..(i - 1) : s[j] # c) - 1
  ELSE -1

\* copy(dst[at:], src) where src fits
CopyInto(dst, at, src) ==
  [i \in 1..Len(dst) |->
     IF i > at /\ i <= at + Len(src) THEN src[i - at] ELSE dst[i]]

\* ------------------------------------------------ OutputStream.Write
\* the carriage-return test of the LINES loop: the byte looked at is
\* p[newlineOffset-1], an offset relative to the start of p
StripsCR(p, firstChar, newlineOffset) ==
  newlineOffset > 0 /\ At(p, newlineOffset - 1) = CR

\* the LINES loop: emits one line per newline of p, returns the offset after
\* the last newline, the buffer's lastChar and the lines sent
RECURSIVE LinesLoop(_, _, _, _, _)
LinesLoop(p, b, firstChar, rwLast, out) ==
  LET newlineOffset == IndexByte(Slice(p, firstChar, Len(p)), LF) IN
  IF newlineOffset < 0
  THEN [firstChar |-> firstChar, lastChar |-> rwLast, out |-> out]
  ELSE LET lc   == IF StripsCR(p, firstChar, newlineOffset)
                   THEN firstChar + newlineOffset - 1
                   ELSE firstChar + newlineOffset
           line == (IF rwLast > 0 THEN Slice(b, 0, rwLast) ELSE <<>>)
                     \o Slice(p, firstChar, lc)
       IN LinesLoop(p, b, firstChar + newlineOffset + 1, 0, Append(out, line))

\* the overflow test on the unterminated remainder
Overflows_ge(remain, bufFree) == remain >= bufFree
Overflows(remain, bufFree) == remain > bufFree

NoWrite == [p |-> <<>>, n |-> 0, err |-> FALSE, Line |-> <<>>,
            BufferSize |-> 0, BufferFree |-> 0]

Write(p) ==
  LET r       == LinesLoop(p, buf, 0, lastChar, <<>>)
      n       == Len(p)
      remain  == n - r.firstChar
      bufFree == BufSize - r.lastChar
  IN /\ sink' = sink \o r.out
     /\ IF r.firstChar < n /\ Overflows(remain, bufFree)
        THEN /\ lastWrite' = [p |-> p, n |-> r.firstChar, err |-> TRUE,
                              Line |-> (IF r.lastChar > 0
                                        THEN Slice(buf, 0, r.lastChar)
                                        ELSE <<>>) \o Slice(p, r.firstChar, n),
                              BufferSize |-> BufSize, BufferFree |-> bufFree]
             /\ lastChar' = r.lastChar
             /\ buf' = buf
             /\ accepted' = accepted \o Slice(p, 0, r.firstChar)
             /\ overflowed' = TRUE
        ELSE /\ lastWrite' = [NoWrite EXCEPT !.p = p, !.n = n]
             /\ buf' = IF r.firstChar < n
                       THEN CopyInto(buf, r.lastChar, Slice(p, r.firstChar, n))
                       ELSE buf
             /\ lastChar' = IF r.firstChar < n THEN r.lastChar + remain
                            ELSE r.lastChar
             /\ accepted' = accepted \o p
             /\ overflowed' = overflowed

Chunks == UNION {[1..k -> Bytes] : k \in 0..MaxChunk}

DoWrite ==
  \E p \in Chunks :
    /\ Len(accepted) + Len(p) <= MaxStream
    /\ Write(p)
    /\ UNCHANGED <<optVars, coreVars, parseVars, infoVars, rvVars, extVars>>

InitStream ==
  /\ buf = [i \in 1..BufSize |-> 0]
  /\ lastChar = 0
  /\ sink = <<>>
  /\ accepted = <<>>
  /\ overflowed = FALSE
  /\ lastWrite = NoWrite


\* ---------------------------------------------- line buffer properties
HasLF(s) == \E i \in 1..Len(s) : s[i] = LF

\* the bytes of s after its last newline (all of s when it has none)
Pending(s) ==
  IF HasLF(s)
  THEN LET k == CHOOSE i \in 1..Len(s) :
                  s[i] = LF /\ \A j \in (i + 1)..Len(s) : s[j] # LF
       IN SubSeq(s, k + 1, Len(s))
  ELSE s

StripOneCR(l) ==
  IF Len(l) > 0 /\ l[Len(l)] = CR THEN SubSeq(l, 1, Len(l) - 1) ELSE l

\* split(s, "\n") with one trailing "\r" stripped from each element, without
\* the final unterminated element
RECURSIVE ExpectedLines(_)
ExpectedLines(s) ==
  LET i == IndexByte(s, LF) IN
  IF i < 0 THEN <<>>
  ELSE <<StripOneCR(Slice(s, 0, i))>> \o ExpectedLines(Slice(s, i + 1, Len(s)))

\* C1: as long as no Write has overflowed, the lines sent to the sink are the
\* written stream split at each newline with one trailing carriage return
\* stripped, whatever the chunking, and the unterminated rest is what the
\* scratch region holds.
C1_LinesEqualSplit ==
  ~overflowed =>
    /\ sink = ExpectedLines(accepted)
    /\ Slice(buf, 0, lastChar) = Pending(accepted)

HasPrefix(line, kw) == Len(line) > 0 /\ line[1] = kw

\* strconv.Atoi on the token texts of the vocabulary
IntVal ==
  [t \in {"0", "1", "3", "12", "15", "42", "500", "1000"} |->
     CASE t = "0" -> 0 [] t = "1" -> 1 [] t = "3" -> 3 [] t = "12" -> 12
       [] t = "15" -> 15 [] t = "42" -> 42 [] t = "500" -> 500
       [] t = "1000" -> 1000]

Atoi(t) ==
  IF t \in DOMAIN IntVal THEN [err |-> FALSE, v |-> IntVal[t]]
  ELSE [err |-> TRUE, v |-> 0]

\* text/scanner with ScanIdents | ScanChars | ScanInts: a word made of letters
\* and digits is one token, a leading "-" is a token of its own
LexWord(w) ==
  CASE w = ""    -> <<>>
    [] w = "-42" -> <<"-", "42">>
    [] w = "-3"  -> <<"-", "3">>
    [] w = "1.0" -> <<"1", ".", "0">>
    [] OTHER     -> <<w>>

RECURSIVE Lex(_)
Lex(line) ==
  IF line = <<>> THEN <<>> ELSE LexWord(Head(line)) \o Lex(Tail(line))

\* s.TokenText() of the token at position i; "" once the scanner is at EOF
TokAt(T, i) == IF i <= Len(T) THEN T[i] ELSE ""

\* strings.Join(xs, " ")
RECURSIVE Join(_)
Join(xs) ==
  IF xs = <<>> THEN ""
  ELSE IF Len(xs) = 1 THEN xs[1]
  ELSE xs[1] \o " " \o Join(Tail(xs))

ZeroScore == [Val |-> 0, Lowerbound |-> FALSE, Upperbound |-> FALSE, Mate |-> FALSE]

ZeroInfo ==
  [Depth |-> 0, SelDepth |-> 0, Time |-> 0, Nodes |-> 0, NodesPerSecond |-> 0,
   PV |-> <<>>, MultiPV |-> 0, Score |-> ZeroScore, CurrMove |-> "",
   CurrMoveNumber |-> 0, HashFull |-> 0, TBHits |-> 0, SBHits |-> 0,
   CPULoad |-> 0, String |-> "", Refutation |-> <<>>, CurrLine |-> <<>>]

ZeroBestMove == [BestMove |-> "", Ponder |-> ""]

\* the keywords whose case calls atoi, with the field handed to it
IntKeywords ==
  {"depth", "seldepth", "time", "nodes", "nps", "multipv", "currmovenumber",
   "hashfull", "tbhits", "sbhits", "cpuload"}

\* the atoi closure of parseStdout: dest and the scanner are passed by value,
\* so the parsed number reaches no field of info and the caller's scanner
\* stays on the keyword; only the conversion error comes back
atoi(info, kw, T, i) ==
  [err |-> Atoi(TokAt(T, i + 1)).err, info |-> info, pos |-> i]

\* the case "score" of the token switch
ScoreCase(info, T, i) ==
  LET j0   == i + 1
      t0   == TokAt(T, j0)
      j1   == IF t0 \in {"cp", "mate"} THEN j0 + 1 ELSE j0
      mate == IF t0 = "mate" THEN TRUE ELSE info.Score.Mate
      neg  == TokAt(T, j1) = "-"
      j2   == IF neg THEN j1 + 1 ELSE j1
      r    == Atoi(TokAt(T, j2))
  IN [err |-> r.err,
      info |-> [info EXCEPT !.Score.Mate = mate,
                            !.Score.Val = IF neg THEN 0 - r.v ELSE r.v],
      pos |-> j2]

\* the scanning loop of parseStdout, from the token at position i on
RECURSIVE InfoLoop(_, _, _, _)
InfoLoop(T, i, info, StringSlice) ==
  IF i > Len(T)
  THEN [err |-> FALSE, info |-> [info EXCEPT !.String = Join(StringSlice)]]
  ELSE LET rest == SubSeq(T, i + 1, Len(T)) IN
       CASE T[i] \in IntKeywords ->
              LET r == atoi(info, T[i], T, i) IN
              IF r.err THEN [err |-> TRUE, info |-> info]
              ELSE InfoLoop(T, r.pos + 1, r.info, StringSlice)
         [] T[i] = "score" ->
              LET r == ScoreCase(info, T, i) IN
              IF r.err THEN [err |-> TRUE, info |-> info]
              ELSE InfoLoop(T, r.pos + 1, r.info, StringSlice)
         [] T[i] = "currmove" ->
              InfoLoop(T, i + 2, [info EXCEPT !.CurrMove = TokAt(T, i + 1)],
                       StringSlice)
         [] T[i] = "pv" ->
              InfoLoop(T, Len(T) + 1, [info EXCEPT !.PV = @ \o rest], StringSlice)
         [] T[i] = "refutation" ->
              InfoLoop(T, Len(T) + 1, [info EXCEPT !.Refutation = @ \o rest],
                       StringSlice)
         [] T[i] = "currline" ->
              InfoLoop(T, Len(T) + 1, [info EXCEPT !.CurrLine = @ \o rest],
                       StringSlice)
         [] T[i] = "string" ->
              InfoLoop(T, Len(T) + 1, info, StringSlice \o rest)
         [] OTHER -> InfoLoop(T, i + 1, info, StringSlice)

\* lines 456-559: scan the line into an Info, or give up with an error
ParseInfo(line) == InfoLoop(Lex(line), 1, ZeroInfo, <<>>)

\* lines 561-569: the append under the lock
AppendInfo_keepsHead(b, cap, info) ==
  IF Len(b) > cap /\ cap # 0
  THEN Append(SubSeq(b, 1, cap), info)
  ELSE Append(b, info)
AppendInfo(b, cap, info) ==
  IF Len(b) > cap /\ cap # 0
  THEN Append(SubSeq(b, Len(b) - cap + 1, Len(b)), info)
  ELSE Append(b, info)

\* lines 426-440: the locked section of the bestmove branch.  lineSlice[1]
\* and lineSlice[3] are read without a length check; panic tells that the
\* index was out of range, lbm is e.lastBestMove as the section leaves it
BestMoveSection(lineSlice, lbm) ==
  IF Len(lineSlice) < 2
  THEN [panic |-> TRUE, lbm |-> lbm]
  ELSE LET l1 == [lbm EXCEPT !.BestMove = lineSlice[2]] IN
       IF Len(lineSlice) > 2
       THEN IF Len(lineSlice) < 4
            THEN [panic |-> TRUE, lbm |-> l1]
            ELSE [panic |-> FALSE, lbm |-> [l1 EXCEPT !.Ponder = lineSlice[4]]]
       ELSE [panic |-> FALSE, lbm |-> [l1 EXCEPT !.Ponder = ""]]


\* the select of the drain loop (lines 444-450): its receive case is ready
\* while the channel holds a value
DrainReady_never(ch) == FALSE
DrainReady_leavesOne(ch) == Len(ch) > 1
DrainReady(ch) == ch # <<>>

\* the whole drain loop, run without interruption
RECURSIVE DrainLoop(_)
DrainLoop(ch) == IF DrainReady(ch) THEN DrainLoop(Tail(ch)) ELSE ch

\* capacity of e.chans.bestMove
BestMoveChanCap == 16

\* ------------------------------- parts of the session a run leaves alone
NoGetInfo == [last |-> 0, at |-> 0, panic |-> FALSE, ret |-> <<>>, called |-> FALSE]
ReaderOff == [pc |-> "off", b |-> ZeroBestMove]
WaiterIdle == [pc |-> "idle", ret |-> ZeroBestMove, err |-> FALSE,
               sawFresh |-> FALSE, callBest |-> 0]

IdleOptions ==
  /\ setOptions = <<>>
  /\ optHistory = <<>>
  /\ stdinBroken = FALSE
  /\ optErr = FALSE

IdleCore ==
  /\ infoBuf = <<>>
  /\ infoBufCap = 0
  /\ lastBestMove = ZeroBestMove
  /\ started = FALSE
  /\ bmChan = <<>>
  /\ crashed = FALSE

IdleParse ==
  /\ pline = <<>>
  /\ pstate = "done"
  /\ perr = FALSE

IdleInfo ==
  /\ infoParsed = <<>>
  /\ giRes = NoGetInfo

IdleRendezvous ==
  /\ stdoutQ = <<>>
  /\ emitted = 0
  /\ reader = ReaderOff
  /\ waiter = WaiterIdle
  /\ nBest = 0
  /\ fresh = FALSE
  /\ nRecv = 0

WaitReadyIdle == [pc |-> "idle", err |-> FALSE, timer |-> FALSE,
                  startedAtCall |-> FALSE, consumedAtCall |-> 0]
UCIIdle == [pc |-> "idle", err |-> FALSE, from |-> 0, read |-> <<>>,
            script |-> <<>>, nameAtCall |-> "", authorAtCall |-> "",
            dNameAtCall |-> "", okSeen |-> FALSE]
QuitIdle == [pc |-> "idle", err |-> FALSE, startedAtCall |-> FALSE,
             exitedAtCall |-> FALSE, afterSuccess |-> FALSE]
WaitCollIdle == [pc |-> "idle", err |-> FALSE, readerDoneAtCall |-> FALSE]

IdleReady ==
  /\ wr = WaitReadyIdle
  /\ discarded = <<>>
  /\ nReady = 0
  /\ owed = 0

IdleUCI ==
  /\ engName = ""
  /\ author = ""
  /\ dName = ""
  /\ defaultOptions = <<>>
  /\ uci = UCIIdle
  /\ engineTodo = <<>>
  /\ nUCI = 0
  /\ oline = <<>>
  /\ ostate = "done"

IdleQuit ==
  /\ quit = QuitIdle
  /\ engine = "running"
  /\ pipeClosed = FALSE
  /\ nQuit = 0
  /\ wc = WaitCollIdle

CfgIdle == [pc |-> "done", i |-> 0, err |-> "", engs |-> 0, spawned |-> 0,
            lastNew |-> [called |-> FALSE, err |-> FALSE, eng |-> FALSE,
                         proc |-> FALSE]]

IdleConfig ==
  /\ config = [file |-> "ok", entries |-> <<>>]
  /\ cfg = CfgIdle

ThreadIdle == [pc |-> "idle", new |-> [Name |-> "", Value |-> ""],
               prev |-> <<>>]

IdleConc == thr = [t \in ConcThreads |-> ThreadIdle]

\* gen counts the channel sets made so far (0: e.chans is nil), ch holds
\* the number of values buffered in the bestMove channel of each set
RestartIdle == [gen |-> 0, readers |-> 0, q |-> 0, sent |-> 0, ch |-> <<>>,
                by |-> 0,
                w |-> [pc |-> "idle", gen |-> 0, err |-> FALSE]]

IdleRestart == rst = RestartIdle

IdleTail == IdleConfig /\ IdleConc /\ IdleRestart

IdleExt == consumed = <<>> /\ IdleReady /\ IdleUCI /\ IdleQuit /\ IdleTail

NextStream == DoWrite

InitOfStream ==
  /\ InitStream
  /\ IdleOptions /\ IdleCore /\ IdleParse /\ IdleInfo /\ IdleRendezvous
  /\ IdleExt

SpecStream == InitOfStream /\ [][NextStream]_vars

\* ------------------------------------------------- generated engine lines
SeqsUpTo(S, n) == UNION {[1..k -> S] : k \in 0..n}

RECURSIVE Flatten(_)
Flatten(ss) == IF ss = <<>> THEN <<>> ELSE Head(ss) \o Flatten(Tail(ss))

MoveWords == {"e2e4", "ponder", "e7e5"}

BestMoveLines == {<<"bestmove">> \o ws : ws \in SeqsUpTo(MoveWords, MaxMoveWords)}

Snippets ==
  {<<"depth", "12">>, <<"seldepth", "15">>, <<"time", "3">>,
   <<"nodes", "1000">>, <<"nps", "500">>, <<"multipv", "1">>,
   <<"hashfull", "3">>, <<"tbhits", "1">>, <<"sbhits", "1">>,
   <<"cpuload", "42">>, <<"currmovenumber", "3">>, <<"depth", "e2e4">>,
   <<"score", "cp", "-42">>, <<"score", "cp", "12">>, <<"score", "mate", "3">>,
   <<"score", "mate", "-3">>, <<"score", "cp", "e2e4">>,
   <<"currmove", "e2e4">>, <<"pv", "e2e4", "e7e5">>,
   <<"string", "depth", "12">>, <<"refutation", "e2e4", "e7e5">>,
   <<"currline", "e2e4">>}

\* scenario S1 of the specification
S1Line ==
  <<"info", "depth", "12", "seldepth", "15", "score", "cp", "-42",
    "nodes", "1000", "nps", "500", "pv", "e2e4", "e7e5">>

InfoLines ==
  {<<"info">> \o Flatten(fs) : fs \in SeqsUpTo(Snippets, MaxFields)}
    \cup {S1Line}

\* lines an engine writes that are no UCI answer: a banner, an empty line
ChatterLines == {<<"Stockfish", "ready">>, <<>>}

ParseLines == BestMoveLines \cup InfoLines \cup ChatterLines

OldBestMove == [BestMove |-> "d2d4", Ponder |-> "d7d5"]

\* ----------------------------------------- parseStdout, run on its own
\* parseStdout(pline) from entry to return with no other goroutine running
\* (lines 419-572); readyok lines, which wait for a receiver, are not offered
ParseStdout ==
  /\ pstate = "ready"
  /\ ~crashed
  /\ ~HasPrefix(pline, "readyok")
  /\ pstate' = "done"
  /\ IF HasPrefix(pline, "bestmove")
     THEN LET r == BestMoveSection(pline, lastBestMove) IN
          /\ lastBestMove' = r.lbm
          /\ crashed' = r.panic
          /\ bmChan' = IF r.panic THEN bmChan
                       ELSE Append(DrainLoop(bmChan), r.lbm)
          /\ UNCHANGED <<infoBuf, perr>>
     ELSE LET r == ParseInfo(pline) IN
          /\ perr' = r.err
          /\ infoBuf' = IF r.err THEN infoBuf
                        ELSE AppendInfo(infoBuf, infoBufCap, r.info)
          /\ UNCHANGED <<lastBestMove, bmChan, crashed>>
  /\ UNCHANGED <<infoBufCap, started, pline>>
  /\ UNCHANGED <<streamVars, optVars, infoVars, rvVars, extVars>>

InitParse ==
  /\ pline \in ParseLines
  /\ pstate = "ready"
  /\ perr = FALSE
  /\ infoBuf = <<>>
  /\ infoBufCap = 0
  /\ started = TRUE
  /\ crashed = FALSE
  /\ \/ lastBestMove = ZeroBestMove /\ bmChan = <<>>
     \/ lastBestMove = OldBestMove /\ bmChan = <<OldBestMove>>

NextParse == ParseStdout

InitOfParse ==
  /\ InitParse
  /\ InitStream /\ IdleOptions /\ IdleInfo /\ IdleRendezvous
  /\ IdleExt

SpecParse == InitOfParse /\ [][NextParse]_vars

\* -------------------------------------------------- parser properties
\* the token after the "ponder" keyword, "" when the keyword is absent
PonderOf(line) ==
  IF \E i \in 1..Len(line) : line[i] = "ponder"
  THEN LET k == CHOOSE i \in 1..Len(line) :
                  line[i] = "ponder" /\ \A j \in 1..(i - 1) : line[j] # "ponder"
       IN IF k < Len(line) THEN line[k + 1] ELSE ""
  ELSE ""

\* C9: after parseStdout of any bestmove line the reader has not faulted,
\* lastBestMove.BestMove is the token following "bestmove" ("" when there is
\* none), Ponder is the token following "ponder" when present and ""
\* otherwise, and the value published on the channel is lastBestMove.
C9_BestMoveParsedForEveryTokenCount ==
  (pstate = "done" /\ HasPrefix(pline, "bestmove")) =>
    /\ ~crashed
    /\ lastBestMove.BestMove = (IF Len(pline) >= 2 THEN pline[2] ELSE "")
    /\ lastBestMove.Ponder = PonderOf(pline)
    /\ bmChan = <<lastBestMove>>

\* the Info field an integer keyword stands for
FieldOf(info, kw) ==
  CASE kw = "depth" -> info.Depth
    [] kw = "seldepth" -> info.SelDepth
    [] kw = "time" -> info.Time
    [] kw = "nodes" -> info.Nodes
    [] kw = "nps" -> info.NodesPerSecond
    [] kw = "multipv" -> info.MultiPV
    [] kw = "currmovenumber" -> info.CurrMoveNumber
    [] kw = "hashfull" -> info.HashFull
    [] kw = "tbhits" -> info.TBHits
    [] kw = "sbhits" -> info.SBHits
    [] kw = "cpuload" -> info.CPULoad

GreedyKeywords == {"pv", "string", "refutation", "currline"}

\* position of the first greedy keyword of T, Len(T) + 1 when there is none
GreedyStart(T) ==
  IF \E i \in 1..Len(T) : T[i] \in GreedyKeywords
  THEN CHOOSE i \in 1..Len(T) :
         T[i] \in GreedyKeywords /\ \A j \in 1..(i - 1) : T[j] \notin GreedyKeywords
  ELSE Len(T) + 1

\* no keyword occurs twice before the greedy tail
WellFormed(T) ==
  \A i, j \in 1..(GreedyStart(T) - 1) :
    (i # j /\ T[i] \in IntKeywords \cup {"score"}) => T[i] # T[j]

\* C10: in the Info appended for an info line, every integer keyword followed
\* by an integer has set its field to that integer, score cp|mate [-]N has set
\* score.value to the signed N and score.mate accordingly, and pv holds all
\* the remaining tokens in order.
C10_InfoFieldsPopulated ==
  LET T == Lex(pline)
      g == GreedyStart(T)
      info == infoBuf[Len(infoBuf)]
  IN (pstate = "done" /\ HasPrefix(pline, "info") /\ ~perr /\ WellFormed(T)) =>
       /\ Len(infoBuf) = 1
       /\ \A i \in 1..(g - 1) :
            (T[i] \in IntKeywords /\ TokAt(T, i + 1) \in DOMAIN IntVal) =>
               FieldOf(info, T[i]) = IntVal[T[i + 1]]
       /\ \A i \in 1..(g - 1) :
            (T[i] = "score" /\ TokAt(T, i + 1) \in {"cp", "mate"}) =>
               /\ info.Score.Mate = (T[i + 1] = "mate")
               /\ info.Score.Val =
                    (IF TokAt(T, i + 2) = "-" THEN 0 - IntVal[T[i + 3]]
                     ELSE IntVal[T[i + 2]])
       /\ (g <= Len(T) /\ T[g] = "pv") => info.PV = SubSeq(T, g + 1, Len(T))


\* ====================================================================
\* SendOption and set_options
\* ====================================================================
OptNames == {"Hash", "Threads"}
OptValues == {"", "1", "2"}

\* SendCommand (lines 244-256): WriteString and Flush on e.stdin; the error
\* it returns, if any, is the pipe's: the engine has closed its end, or has
\* exited
SendCommandFails == stdinBroken \/ engine = "exited"

\* the mergeSetOptions closure of SendOption (lines 312-322)
mergeSetOptions_inplace(prev, new) ==
  IF \E i \in 1..Len(prev) : prev[i].Name = new.Name
  THEN [i \in 1..Len(prev) |-> IF prev[i].Name = new.Name THEN new ELSE prev[i]]
  ELSE Append(prev, new)
mergeSetOptions(prev, new) ==
  IF \E i \in 1..Len(prev) : prev[i].Name = new.Name
  THEN LET k == CHOOSE i \in 1..Len(prev) :
                  prev[i].Name = new.Name
                    /\ \A j \in 1..(i - 1) : prev[j].Name # new.Name
       IN Append(SubSeq(prev, 1, k - 1) \o SubSeq(prev, k + 1, Len(prev)), new)
  ELSE Append(prev, new)

\* SendOption(name, value), lines 293-327; the other EngOption fields of the
\* entry keep their zero values and are left out
SendOption_mergesFirst(name, value) ==
  /\ Len(optHistory) < MaxOptCalls
  /\ setOptions' = mergeSetOptions(setOptions, [Name |-> name, Value |-> value])
  /\ optErr' = SendCommandFails
  /\ optHistory' = IF SendCommandFails THEN optHistory
                   ELSE Append(optHistory, <<name, value>>)
  /\ UNCHANGED stdinBroken
  /\ UNCHANGED <<streamVars, coreVars, parseVars, infoVars, rvVars, extVars>>
SendOption(name, value) ==
  /\ Len(optHistory) < MaxOptCalls
  /\ IF SendCommandFails
     THEN /\ optErr' = TRUE
          /\ UNCHANGED <<setOptions, optHistory>>
     ELSE /\ optErr' = FALSE
          /\ setOptions' = mergeSetOptions(setOptions, [Name |-> name, Value |-> value])
          /\ optHistory' = Append(optHistory, <<name, value>>)
  /\ UNCHANGED stdinBroken
  /\ UNCHANGED <<streamVars, coreVars, parseVars, infoVars, rvVars, extVars>>

\* the engine closes its end of the stdin pipe
StdinBreaks ==
  /\ ~stdinBroken
  /\ stdinBroken' = TRUE
  /\ UNCHANGED <<setOptions, optHistory, optErr>>
  /\ UNCHANGED <<streamVars, coreVars, parseVars, infoVars, rvVars, extVars>>

NextOptions ==
  \/ \E name \in OptNames, value \in OptValues : SendOption(name, value)
  \/ StdinBreaks

InitOfOptions ==
  /\ IdleOptions
  /\ InitStream /\ IdleCore /\ IdleParse /\ IdleInfo /\ IdleRendezvous
  /\ IdleExt

SpecOptions == InitOfOptions /\ [][NextOptions]_vars

\* position in optHistory of the most recent application of name
LastApplied(name) ==
  CHOOSE k \in 1..Len(optHistory) :
    optHistory[k][1] = name
      /\ \A j \in (k + 1)..Len(optHistory) : optHistory[j][1] # name

\* C3: after any sequence of successful SendOption calls, set_options has one
\* entry per distinct name applied, each with the value of the most recent
\* call for its name, ordered by the most recent application of each name.
C3_SetOptionsLatestPerName ==
  LET n == Len(setOptions) IN
  /\ \A i, j \in 1..n : i # j => setOptions[i].Name # setOptions[j].Name
  /\ {setOptions[i].Name : i \in 1..n}
       = {optHistory[k][1] : k \in 1..Len(optHistory)}
  /\ \A i \in 1..n :
       setOptions[i].Value = optHistory[LastApplied(setOptions[i].Name)][2]
  /\ \A i, j \in 1..n :
       i < j => LastApplied(setOptions[i].Name) < LastApplied(setOptions[j].Name)

\* a name applied first and again last has moved behind the other name, with
\* its new value
C3_Witness ==
  /\ Len(optHistory) = 3
  /\ Len(setOptions) = 2
  /\ optHistory[1][1] = optHistory[3][1]
  /\ optHistory[1][2] # optHistory[3][2]
  /\ setOptions[2] = [Name |-> optHistory[3][1], Value |-> optHistory[3][2]]
  /\ setOptions[1].Name = optHistory[2][1]

\* ====================================================================
\* info_buf and GetInfo
\* ====================================================================
InfoSpecLines ==
  {<<"info", "score", "cp", "12">>, <<"info", "score", "cp", "-42">>,
   <<"info", "depth", "12", "pv", "e2e4">>, <<"info", "depth", "e2e4">>}

\* one turn of the reader goroutine on a line that is neither readyok nor
\* bestmove (lines 587-595 with 456-571): the error of parseStdout is dropped
ReaderInfoLine_keepsPartial(line) ==
  LET r == ParseInfo(line) IN
  /\ infoBuf' = AppendInfo(infoBuf, infoBufCap, r.info)
  /\ infoParsed' = Append(infoParsed, r.info)
ReaderInfoLine(line) ==
  LET r == ParseInfo(line) IN
  IF r.err
  THEN UNCHANGED <<infoBuf, infoParsed>>
  ELSE /\ infoBuf' = AppendInfo(infoBuf, infoBufCap, r.info)
       /\ infoParsed' = Append(infoParsed, r.info)

ReadInfoLine ==
  /\ ~crashed
  /\ Len(infoParsed) < MaxInfoLines
  /\ \E line \in InfoSpecLines : ReaderInfoLine(line)
  /\ UNCHANGED <<infoBufCap, lastBestMove, started, bmChan, crashed, giRes>>
  /\ UNCHANGED <<streamVars, optVars, parseVars, rvVars, extVars>>

\* the choice between the two branches of GetInfo (line 406)
ReturnsAll(last, cap) == last < 0 \/ last > cap

\* GetInfo(last), lines 400-416: the slice expression e.infoBuf[len-last:]
\* panics when last is larger than len(e.infoBuf)
GetInfoResult(b, cap, last) ==
  IF ReturnsAll(last, cap)
  THEN [panic |-> FALSE, ret |-> b]
  ELSE IF Len(b) - last < 0
       THEN [panic |-> TRUE, ret |-> <<>>]
       ELSE [panic |-> FALSE, ret |-> SubSeq(b, Len(b) - last + 1, Len(b))]

GetInfo(last) ==
  /\ ~crashed
  /\ LET r == GetInfoResult(infoBuf, infoBufCap, last) IN
       /\ giRes' = [last |-> last, at |-> Len(infoParsed), panic |-> r.panic,
                    ret |-> r.ret, called |-> TRUE]
       /\ crashed' = r.panic
  /\ UNCHANGED <<infoBuf, infoBufCap, lastBestMove, started, bmChan, infoParsed>>
  /\ UNCHANGED <<streamVars, optVars, parseVars, rvVars, extVars>>

InitInfo ==
  /\ infoBuf = <<>>
  /\ infoBufCap \in 0..MaxCap
  /\ lastBestMove = ZeroBestMove
  /\ started = TRUE
  /\ bmChan = <<>>
  /\ crashed = FALSE
  /\ IdleInfo

NextInfo ==
  \/ ReadInfoLine
  \/ \E last \in (0 - 1)..MaxLast : GetInfo(last)

InitOfInfo ==
  /\ InitInfo
  /\ InitStream /\ IdleOptions /\ IdleParse /\ IdleRendezvous
  /\ IdleExt

SpecInfo == InitOfInfo /\ [][NextInfo]_vars

\* the last k elements of b
LastN(b, k) == SubSeq(b, Len(b) - k + 1, Len(b))

\* C4: with info_buf_cap = C > 0 the buffer never holds more than C entries,
\* and once more than C info lines have been parsed it holds exactly the C
\* most recent ones.
C4_InfoBufWithinCap ==
  infoBufCap > 0 =>
    /\ Len(infoBuf) <= infoBufCap
    /\ Len(infoParsed) > infoBufCap => infoBuf = LastN(infoParsed, infoBufCap)

\* the most recent GetInfo was answered from the buffer as it is now
GetInfoCurrent == giRes.called /\ giRes.at = Len(infoParsed)

\* C5: GetInfo(k) with 0 <= k <= len(info_buf) returns the last k entries in
\* order, whatever info_buf_cap is, and GetInfo of a negative number returns
\* all entries.
C5_GetInfoReturnsLastK ==
  GetInfoCurrent =>
    /\ (0 <= giRes.last /\ giRes.last <= Len(infoBuf)) =>
          (~giRes.panic /\ giRes.ret = LastN(infoBuf, giRes.last))
    /\ giRes.last < 0 => (~giRes.panic /\ giRes.ret = infoBuf)

\* C6: GetInfo(last) with last larger than the number of held entries returns
\* all held entries and does not fault.
C6_GetInfoBeyondHeldReturnsAll ==
  (GetInfoCurrent /\ giRes.last > Len(infoBuf)) =>
    (~giRes.panic /\ giRes.ret = infoBuf)


\* ====================================================================
\* The reader goroutine and WaitBestMove
\* ====================================================================
\* what the engine writes in this specification
EngineLines ==
  {<<"bestmove", "e2e4">>, <<"bestmove", "d2d4", "ponder", "d7d5">>,
   <<"bestmove">>, <<"info", "score", "cp", "12">>, <<"info", "depth", "e2e4">>}

rvFrame ==
  UNCHANGED <<streamVars, optVars, parseVars, giRes, consumed, readyVars,
              uciVars, quitVars, tailVars>>
\* the same for the one step that takes a line from the engine's stdout
rvFrameRead ==
  UNCHANGED <<streamVars, optVars, parseVars, giRes, readyVars, uciVars,
              quitVars, tailVars>>

\* StartInfoCollection (lines 580-600): makes the channels and starts the
\* reader goroutine.  In this specification the caller starts it once.
StartInfoCollection ==
  /\ ~crashed
  /\ ~started
  /\ started' = TRUE
  /\ bmChan' = <<>>
  /\ reader' = [pc |-> "read", b |-> ZeroBestMove]
  /\ UNCHANGED <<infoBuf, infoBufCap, lastBestMove, crashed, infoParsed,
                 stdoutQ, emitted, waiter, nBest, fresh, nRecv>>
  /\ rvFrame

\* the engine writes a line to its stdout
EngineEmit ==
  /\ ~crashed
  /\ emitted < MaxEmit
  /\ \E line \in EngineLines : stdoutQ' = Append(stdoutQ, line)
  /\ emitted' = emitted + 1
  /\ UNCHANGED <<coreVars, infoParsed, reader, waiter, nBest, fresh, nRecv>>
  /\ rvFrame

\* the reader takes the next line (line 587) and runs parseStdout up to the
\* end of the locked section of the bestmove branch (lines 426-440), or, for
\* any other line, to its return
ReaderRead ==
  /\ ~crashed
  /\ reader.pc = "read"
  /\ stdoutQ # <<>>
  /\ stdoutQ' = Tail(stdoutQ)
  /\ consumed' = Append(consumed, Head(stdoutQ))
  /\ LET line == Head(stdoutQ) IN
     IF HasPrefix(line, "readyok")
     THEN /\ reader' = [reader EXCEPT !.pc = "sendready"]
          /\ UNCHANGED <<infoBuf, infoParsed, lastBestMove, crashed, nBest,
                         fresh>>
     ELSE IF HasPrefix(line, "bestmove")
     THEN LET r == BestMoveSection(line, lastBestMove) IN
          /\ lastBestMove' = r.lbm
          /\ crashed' = r.panic
          /\ reader' = IF r.panic THEN reader ELSE [pc |-> "drain", b |-> r.lbm]
          /\ nBest' = nBest + 1
          /\ fresh' = FALSE
          /\ UNCHANGED <<infoBuf, infoParsed>>
     ELSE /\ ReaderInfoLine(line)
          /\ UNCHANGED <<lastBestMove, crashed, reader, nBest, fresh>>
  /\ UNCHANGED <<infoBufCap, started, bmChan, emitted, waiter, nRecv>>
  /\ rvFrameRead

\* one turn of the drain loop (lines 443-450)
ReaderDrain ==
  /\ ~crashed
  /\ reader.pc = "drain"
  /\ IF DrainReady(bmChan)
     THEN bmChan' = Tail(bmChan) /\ reader' = reader
     ELSE bmChan' = bmChan /\ reader' = [reader EXCEPT !.pc = "publish"]
  /\ UNCHANGED <<infoBuf, infoBufCap, lastBestMove, started, crashed,
                 infoParsed, stdoutQ, emitted, waiter, nBest, fresh, nRecv>>
  /\ rvFrame

\* e.chans.bestMove <- b (line 452): the value goes straight to a receiver
\* that is waiting, into the buffer otherwise
ReaderPublish ==
  /\ ~crashed
  /\ reader.pc = "publish"
  /\ IF waiter.pc = "blocked"
     THEN /\ waiter' = [waiter EXCEPT !.pc = "returned", !.ret = reader.b,
                                      !.err = FALSE]
          /\ nRecv' = nRecv + 1
          /\ fresh' = FALSE
          /\ bmChan' = bmChan
     ELSE /\ Len(bmChan) < BestMoveChanCap
          /\ bmChan' = Append(bmChan, reader.b)
          /\ fresh' = TRUE
          /\ UNCHANGED <<waiter, nRecv>>
  /\ reader' = [reader EXCEPT !.pc = "read"]
  /\ UNCHANGED <<infoBuf, infoBufCap, lastBestMove, started, crashed,
                 infoParsed, stdoutQ, emitted, nBest>>
  /\ rvFrame

\* WaitBestMove(timeout) up to its select (lines 383-391), with a timeout that
\* has not run out when the select is reached: a buffered value is received
\* and returned at once, otherwise the caller waits
WaitBestMove ==
  /\ ~crashed
  /\ waiter.pc \in {"idle", "returned"}
  /\ IF ~started
     THEN /\ waiter' = [pc |-> "returned", ret |-> ZeroBestMove, err |-> TRUE,
                        sawFresh |-> FALSE, callBest |-> nBest]
          /\ UNCHANGED <<bmChan, fresh, nRecv>>
     ELSE IF bmChan # <<>>
     THEN /\ waiter' = [pc |-> "returned", ret |-> Head(bmChan), err |-> FALSE,
                        sawFresh |-> fresh, callBest |-> nBest]
          /\ bmChan' = Tail(bmChan)
          /\ fresh' = FALSE
          /\ nRecv' = nRecv + 1
     ELSE /\ waiter' = [pc |-> "blocked", ret |-> ZeroBestMove, err |-> FALSE,
                        sawFresh |-> FALSE, callBest |-> nBest]
          /\ UNCHANGED <<bmChan, fresh, nRecv>>
  /\ UNCHANGED <<infoBuf, infoBufCap, lastBestMove, started, crashed,
                 infoParsed, stdoutQ, emitted, reader, nBest>>
  /\ rvFrame

\* the timer of a waiting WaitBestMove fires (lines 393-394)
WaitBestMoveTimeout ==
  /\ ~crashed
  /\ waiter.pc = "blocked"
  /\ waiter' = [waiter EXCEPT !.pc = "returned", !.err = TRUE]
  /\ UNCHANGED <<coreVars, infoParsed, stdoutQ, emitted, reader, nBest, fresh,
                 nRecv>>
  /\ rvFrame

Init ==
  /\ IdleCore /\ IdleRendezvous
  /\ InitStream /\ IdleOptions /\ IdleParse /\ IdleInfo
  /\ IdleExt

Next ==
  \/ StartInfoCollection
  \/ EngineEmit
  \/ ReaderRead
  \/ ReaderDrain
  \/ ReaderPublish
  \/ WaitBestMove
  \/ WaitBestMoveTimeout

Spec == Init /\ [][Next]_vars

\* C7: a WaitBestMove called when the last bestmove line has been parsed and
\* published and nobody has received it yet, with no later bestmove line
\* taken up by the reader, returns exactly that bestmove (lastBestMove),
\* whatever earlier bestmoves were left uncollected.
C7_NextWaitReturnsParsedBestMove ==
  (waiter.pc = "returned" /\ waiter.sawFresh /\ waiter.callBest = nBest) =>
    (~waiter.err /\ waiter.ret = lastBestMove)

\* the first value ever received is the second (or later) bestmove parsed
C7_Witness ==
  /\ waiter.pc = "returned"
  /\ waiter.sawFresh
  /\ waiter.callBest = nBest
  /\ ~waiter.err
  /\ waiter.ret = lastBestMove
  /\ nBest >= 2
  /\ nRecv = 1

\* C8: whenever WaitBestMove returns a value, that value is lastBestMove at
\* that moment, under every interleaving with the reader.
C8_ReturnsLastBestMoveAtReturn ==
  [][nRecv' = nRecv + 1 => waiter'.ret = lastBestMove']_vars

\* -------------------------------------------------------------------- C11
\* an info line whose first integer field is followed by a word that is not
\* an integer
IntFieldFails(line) ==
  /\ Len(line) >= 3
  /\ line[1] = "info"
  /\ line[2] \in IntKeywords
  /\ line[3] \notin DOMAIN IntVal

\* the Infos the lines taken so far yield when each line is parsed on its own
RECURSIVE InfosOf(_)
InfosOf(ls) ==
  IF ls = <<>> THEN <<>>
  ELSE LET l == Head(ls) IN
       IF HasPrefix(l, "readyok") \/ HasPrefix(l, "bestmove") \/ IntFieldFails(l)
       THEN InfosOf(Tail(ls))
       ELSE <<ParseInfo(l).info>> \o InfosOf(Tail(ls))

\* C11: when an integer field of an info line fails to parse, the reader's
\* turn on that line leaves info_buf, last_bestmove and the bestmove channel
\* as they were, and the reader stays ready for the next line: every line it
\* takes afterwards is parsed as if the failed line had not been there.
C11_ParseFailureAppendsNothing ==
  /\ [][(consumed' # consumed /\ IntFieldFails(Head(stdoutQ))) =>
          /\ infoBuf' = infoBuf
          /\ infoParsed' = infoParsed
          /\ lastBestMove' = lastBestMove
          /\ bmChan' = bmChan
          /\ waiter' = waiter
          /\ reader' = reader
          /\ ~crashed']_vars
  /\ [](infoParsed = InfosOf(consumed))

\* a failed line was taken first and the info line after it was appended
C11_Witness ==
  /\ Len(consumed) >= 2
  /\ IntFieldFails(consumed[1])
  /\ consumed[2] = <<"info", "score", "cp", "12">>
  /\ Len(infoParsed) = 1
  /\ infoBuf = <<ParseInfo(consumed[2]).info>>

\* ====================================================================
\* parseUCILine (src/uci.go lines 136-188)
\* ====================================================================
OptKeywords == {"name", "type", "default", "min", "max", "var"}

\* the loop of the closure f (lines 142-150): the number of leading tokens of
\* s that are not keywords
RunLen(s) ==
  IF \E i \in 1..Len(s) : s[i] \in OptKeywords
  THEN (CHOOSE i \in 1..Len(s) :
          s[i] \in OptKeywords /\ \A j \in 1..(i - 1) : s[j] \notin OptKeywords) - 1
  ELSE Len(s)

\* the closure f (lines 137-157)
f_keepsEmpty(s) == [ret |-> Join(Slice(s, 0, RunLen(s))), i |-> RunLen(s)]
f(s) ==
  LET i == RunLen(s)
      ret == Join(Slice(s, 0, i))
  IN [ret |-> IF ret = "<empty>" THEN "" ELSE ret, i |-> i]

ZeroEngOption ==
  [Name |-> "", Value |-> "", Type |-> "", Default |-> "", Min |-> "",
   Max |-> "", Var |-> <<>>]

\* the loop of parseUCILine from index i on (lines 161-185)
RECURSIVE parseUCILoop(_, _, _)
parseUCILoop(s, i, lineOptions) ==
  IF i >= Len(s) THEN lineOptions
  ELSE LET r == f(Slice(s, i + 1, Len(s)))
           k == At(s, i)
       IN CASE k = "name" ->
                 parseUCILoop(s, i + r.i + 1, [lineOptions EXCEPT !.Name = r.ret])
            [] k = "type" ->
                 parseUCILoop(s, i + r.i + 1, [lineOptions EXCEPT !.Type = r.ret])
            [] k = "default" ->
                 parseUCILoop(s, i + r.i + 1, [lineOptions EXCEPT !.Default = r.ret])
            [] k = "min" ->
                 parseUCILoop(s, i + r.i + 1, [lineOptions EXCEPT !.Min = r.ret])
            [] k = "max" ->
                 parseUCILoop(s, i + r.i + 1, [lineOptions EXCEPT !.Max = r.ret])
            [] k = "var" ->
                 parseUCILoop(s, i + r.i + 1,
                              [lineOptions EXCEPT !.Var = Append(@, r.ret)])
            [] OTHER -> parseUCILoop(s, i + 1, lineOptions)

\* parseUCILine(s) up to its last line: the EngOption built from s
parseUCILine(s) == parseUCILoop(s, 0, ZeroEngOption)

\* e.defaultOptions = append(e.defaultOptions, lineOptions) (line 187)
AppendOption_front(opts, lineOptions) == <<lineOptions>> \o opts
AppendOption(opts, lineOptions) == Append(opts, lineOptions)

OptTokens == OptKeywords \cup {"Hash", "16", "<empty>"}
OptLines == SeqsUpTo(OptTokens, MaxOptTokens)

ParseUCILineStep ==
  /\ ostate = "ready"
  /\ defaultOptions' = AppendOption(defaultOptions, parseUCILine(oline))
  /\ ostate' = "done"
  /\ UNCHANGED <<engName, author, dName, uci, engineTodo, nUCI, oline>>
  /\ UNCHANGED <<streamVars, optVars, coreVars, parseVars, infoVars, rvVars,
                 consumed, readyVars, quitVars, tailVars>>

InitOfOptLine ==
  /\ oline \in OptLines
  /\ ostate = "ready"
  /\ engName = "" /\ author = "" /\ dName = "" /\ defaultOptions = <<>>
  /\ uci = UCIIdle /\ engineTodo = <<>> /\ nUCI = 0
  /\ consumed = <<>> /\ IdleReady /\ IdleQuit /\ IdleTail
  /\ InitStream /\ IdleOptions /\ IdleCore /\ IdleParse /\ IdleInfo
  /\ IdleRendezvous

NextOptLine == ParseUCILineStep

SpecOptLine == InitOfOptLine /\ [][NextOptLine]_vars

\* -------------------------------------------------------------------- C12
\* the tokens after position i (1-based) up to the next keyword or the end
RunAfter(s, i) ==
  LET stops == {j \in (i + 1)..Len(s) : s[j] \in OptKeywords}
      e == IF stops = {} THEN Len(s)
           ELSE (CHOOSE j \in stops : \A h \in stops : j <= h) - 1
  IN SubSeq(s, i + 1, e)

\* the text a run stands for
ValueOf(run) == IF run = <<"<empty>">> THEN "" ELSE Join(run)

\* the value of the single-valued field of keyword k
FieldExpected(s, k) ==
  LET at == {i \in 1..Len(s) : s[i] = k} IN
  IF at = {} THEN ""
  ELSE ValueOf(RunAfter(s, CHOOSE i \in at : \A h \in at : h <= i))

\* one value per occurrence of "var" from position i on, in order
RECURSIVE VarExpected(_, _)
VarExpected(s, i) ==
  IF i > Len(s) THEN <<>>
  ELSE IF s[i] = "var" THEN <<ValueOf(RunAfter(s, i))>> \o VarExpected(s, i + 1)
  ELSE VarExpected(s, i + 1)

\* v is the text of a stretch of tokens of s none of which is a keyword
KeywordFree(s, v) ==
  \E a \in 1..(Len(s) + 1), b \in 0..Len(s) :
    /\ \A j \in a..b : s[j] \notin OptKeywords
    /\ v = ValueOf(SubSeq(s, a, b))

\* C12: for every option line, each field of the parsed option equals the run
\* of tokens after its keyword up to the next of the six keywords or the end
\* of the line, joined by single spaces, with "<empty>" standing for the
\* empty string; var has one element per occurrence of "var", in order; no
\* field contains a keyword as a whole token.
C12_OptionFieldsAreKeywordRuns ==
  ostate = "done" =>
    LET o == defaultOptions[Len(defaultOptions)] IN
    /\ o.Name = FieldExpected(oline, "name")
    /\ o.Type = FieldExpected(oline, "type")
    /\ o.Default = FieldExpected(oline, "default")
    /\ o.Min = FieldExpected(oline, "min")
    /\ o.Max = FieldExpected(oline, "max")
    /\ o.Var = VarExpected(oline, 1)
    /\ \A v \in {o.Name, o.Type, o.Default, o.Min, o.Max} : KeywordFree(oline, v)
    /\ \A i \in 1..Len(o.Var) : KeywordFree(oline, o.Var[i])

\* "var <empty> var 16" has been parsed into the two values "" and "16"
C12_Witness ==
  /\ ostate = "done"
  /\ oline = <<"var", "<empty>", "var", "16">>
  /\ defaultOptions = <<[ZeroEngOption EXCEPT !.Var = <<"", "16">>]>>

\* ====================================================================
\* WaitReadyOK (src/uci.go lines 335-364) beside the reader goroutine
\* ====================================================================
ReadyLines ==
  {<<"readyok">>, <<"info", "score", "cp", "12">>, <<"bestmove", "e2e4">>}

readyFrame ==
  UNCHANGED <<streamVars, optVars, parseVars, infoVars, uciVars, quitVars,
              tailVars, emitted, waiter, nBest, fresh, nRecv>>

\* the engine writes a line; it writes readyok only for an isready it has
\* received and not answered
EngineEmitReady ==
  /\ ~crashed
  /\ emitted < MaxReadyEmit
  /\ \E line \in ReadyLines :
       /\ line = <<"readyok">> => owed > 0
       /\ stdoutQ' = Append(stdoutQ, line)
       /\ owed' = IF line = <<"readyok">> THEN owed - 1 ELSE owed
  /\ emitted' = emitted + 1
  /\ UNCHANGED <<coreVars, infoParsed, giRes, reader, waiter, nBest, fresh,
                 nRecv, consumed, wr, discarded, nReady>>
  /\ UNCHANGED <<streamVars, optVars, parseVars, uciVars, quitVars, tailVars>>

\* WaitReadyOK up to its first select (lines 336-342)
WaitReadyOKCall ==
  /\ ~crashed
  /\ wr.pc \in {"idle", "returned"}
  /\ nReady < MaxReadyCalls
  /\ nReady' = nReady + 1
  /\ IF SendCommandFails
     THEN /\ wr' = [wr EXCEPT !.pc = "returned", !.err = TRUE]
          /\ owed' = owed
     ELSE /\ wr' = [pc |-> "select", err |-> FALSE, timer |-> FALSE,
                    startedAtCall |-> started,
                    consumedAtCall |-> Len(consumed)]
          /\ owed' = owed + 1
  /\ UNCHANGED <<coreVars, stdoutQ, reader, consumed, discarded>>
  /\ readyFrame

\* the five seconds of time.After run out (line 340)
WaitReadyTimer ==
  /\ ~crashed
  /\ wr.pc \in {"select", "readstring"}
  /\ ~wr.timer
  /\ wr' = [wr EXCEPT !.timer = TRUE]
  /\ UNCHANGED <<coreVars, stdoutQ, reader, consumed, discarded, nReady, owed>>
  /\ readyFrame

\* case <-timeout (lines 345-346)
WaitReadyTimeout ==
  /\ ~crashed
  /\ wr.pc = "select"
  /\ wr.timer
  /\ wr' = [wr EXCEPT !.pc = "returned", !.err = TRUE]
  /\ UNCHANGED <<coreVars, stdoutQ, reader, consumed, discarded, nReady, owed>>
  /\ readyFrame

\* the test of line 348: with no readyOK channel WaitReadyOK reads the
\* engine's stdout itself
ReadsItself_always(st) == TRUE
ReadsItself(st) == ~st

\* case <-tick (lines 347-350) when the test sends it on to ReadString; with
\* a readyOK channel the case goes back to the select and changes nothing
WaitReadyTick ==
  /\ ~crashed
  /\ wr.pc = "select"
  /\ ReadsItself(started)
  /\ wr' = [wr EXCEPT !.pc = "readstring"]
  /\ UNCHANGED <<coreVars, stdoutQ, reader, consumed, discarded, nReady, owed>>
  /\ readyFrame

\* e.stdout.ReadString returns a line (lines 352-359): readyok ends the call,
\* any other line is dropped and the loop goes back to the select
WaitReadyRead ==
  /\ ~crashed
  /\ wr.pc = "readstring"
  /\ stdoutQ # <<>>
  /\ stdoutQ' = Tail(stdoutQ)
  /\ IF Head(stdoutQ) = <<"readyok">>
     THEN /\ wr' = [wr EXCEPT !.pc = "returned", !.err = FALSE]
          /\ discarded' = discarded
     ELSE /\ wr' = [wr EXCEPT !.pc = "select"]
          /\ discarded' = Append(discarded, Head(stdoutQ))
  /\ UNCHANGED <<coreVars, reader, consumed, nReady, owed>>
  /\ readyFrame

\* case <-e.chans.readyOK (lines 360-361) meets the reader's send (line 421)
WaitReadyRecv ==
  /\ ~crashed
  /\ wr.pc = "select"
  /\ reader.pc = "sendready"
  /\ wr' = [wr EXCEPT !.pc = "returned", !.err = FALSE]
  /\ reader' = [reader EXCEPT !.pc = "read"]
  /\ UNCHANGED <<coreVars, stdoutQ, consumed, discarded, nReady, owed>>
  /\ readyFrame

InitOfReady ==
  /\ IdleCore /\ IdleRendezvous /\ IdleExt
  /\ InitStream /\ IdleOptions /\ IdleParse /\ IdleInfo

ReaderStep == ReaderRead \/ ReaderDrain \/ ReaderPublish

NextReady ==
  \/ StartInfoCollection
  \/ EngineEmitReady
  \/ ReaderRead
  \/ ReaderDrain
  \/ ReaderPublish
  \/ WaitReadyOKCall
  \/ WaitReadyTimer
  \/ WaitReadyTimeout
  \/ WaitReadyTick
  \/ WaitReadyRead
  \/ WaitReadyRecv

SpecReady == InitOfReady /\ [][NextReady]_vars

\* the goroutines that can run do run, the timer fires, and a select whose
\* timeout case stays ready takes it in the end; the engine and the caller
\* owe nothing
SpecReadyFair ==
  /\ InitOfReady
  /\ [][NextReady]_vars
  /\ WF_vars(ReaderStep)
  /\ WF_vars(WaitReadyTimer)
  /\ WF_vars(WaitReadyTimeout)
  /\ WF_vars(WaitReadyRead)
  /\ WF_vars(WaitReadyRecv)

WaitReadyPending == wr.pc \in {"select", "readstring"}

\* C13: every WaitReadyOK call eventually returns (with success or with the
\* timeout error), also when the engine writes nothing more and whether or
\* not the reader has been started.
C13_WaitReadyOKReturns == WaitReadyPending ~> (wr.pc = "returned")

\* C14: after a WaitReadyOK that timed out, with the reader running, the
\* lines the engine has written (the late readyok and what follows it) are
\* all taken up by the reader in the end, without another caller operation.
C14_LateReadyOKDoesNotStallReader ==
  (wr.pc = "returned" /\ wr.err /\ started /\ stdoutQ # <<>>)
    ~> (stdoutQ = <<>> \/ wr.pc # "returned")

\* C15 as stated: while WaitReadyOK is pending no line of the engine is
\* thrown away, every line that leaves the engine's stdout goes through the
\* reader's parseStdout.
C15_NoLineDiscarded == discarded = <<>>

\* C15: while a WaitReadyOK call made after StartInfoCollection is pending,
\* every line that leaves the engine's stdout is taken by the reader and
\* handed to parseStdout, never consumed by WaitReadyOK; a line is thrown
\* away only by a call made before the reader was started, which reads the
\* engine's stdout itself and leaves info_buf, last_bestmove and the
\* bestmove channel as they were.
C15_ReaderKeepsLinesWhenStarted ==
  /\ [][(WaitReadyPending /\ wr.startedAtCall /\ stdoutQ' # stdoutQ
           /\ Len(stdoutQ') < Len(stdoutQ)) =>
          /\ consumed' = Append(consumed, Head(stdoutQ))
          /\ discarded' = discarded]_vars
  /\ [][discarded' # discarded =>
          /\ ~wr.startedAtCall
          /\ infoBuf' = infoBuf
          /\ lastBestMove' = lastBestMove
          /\ bmChan' = bmChan]_vars

\* a call made with the reader running is pending and the reader has
\* appended an info line since the call
C15_Witness ==
  /\ WaitReadyPending
  /\ wr.startedAtCall
  /\ Len(consumed) > wr.consumedAtCall
  /\ consumed[Len(consumed)] = <<"info", "score", "cp", "12">>
  /\ infoBuf # <<>>
  /\ discarded = <<>>

\* ====================================================================
\* UCI() (src/uci.go lines 192-235) beside the reader goroutine
\* ====================================================================
\* what an engine answers to "uci": scenario S6, an answer with a blank line
\* and two options, the bare uciok, and an answer with a bare "id" line
HandshakeScripts ==
  {<<<<"id", "name", "Foo", "1.0">>, <<"id", "author", "Bar">>,
     <<"option", "name", "Hash", "type", "spin", "default", "16">>,
     <<"uciok">>>>,
   <<<<"option", "name", "Threads", "type", "spin">>, <<>>,
     <<"id", "name", "Baz">>,
     <<"option", "name", "Clear", "Hash", "type", "button">>, <<"uciok">>>>,
   <<<<"uciok">>>>,
   <<<<"id">>, <<"uciok">>>>}

DisplayNames == {"", "Mine"}

uciFrame ==
  UNCHANGED <<streamVars, optVars, parseVars, infoVars, readyVars, quitVars,
              tailVars, oline, ostate, consumed, reader, waiter, nBest, fresh, nRecv,
              infoBuf, infoBufCap, lastBestMove, started, bmChan>>

\* lines 230-232: the display name the handshake leaves
DefaultDName_always(d, n) == n
DefaultDName(d, n) == IF d = "" THEN n ELSE d

\* one turn of the loop of UCI() on the fields of a line (lines 205-227) for
\* the session fields e; panic tells that lineSlice[1] was out of range, ok
\* that the line was uciok
UCILine(lineSlice, e) ==
  LET same == [name |-> e.name, author |-> e.author,
               defaultOptions |-> e.defaultOptions, panic |-> FALSE,
               ok |-> FALSE]
  IN IF Len(lineSlice) = 0 THEN same
     ELSE CASE At(lineSlice, 0) = "id" ->
                 IF Len(lineSlice) < 2 THEN [same EXCEPT !.panic = TRUE]
                 ELSE IF At(lineSlice, 1) = "name"
                 THEN [same EXCEPT !.name = Join(Slice(lineSlice, 2, Len(lineSlice)))]
                 ELSE IF At(lineSlice, 1) = "author"
                 THEN [same EXCEPT !.author = Join(Slice(lineSlice, 2, Len(lineSlice)))]
                 ELSE same
            [] At(lineSlice, 0) = "option" ->
                 [same EXCEPT !.defaultOptions =
                    AppendOption(@, parseUCILine(Slice(lineSlice, 1,
                                                       Len(lineSlice))))]
            [] At(lineSlice, 0) = "uciok" -> [same EXCEPT !.ok = TRUE]
            [] OTHER -> same

\* UCI() up to its loop (lines 193-201): "uci" is written and the engine
\* settles on its answer
UCICall ==
  /\ ~crashed
  /\ uci.pc \in {"idle", "returned"}
  /\ nUCI < MaxUCICalls
  /\ nUCI' = nUCI + 1
  /\ IF SendCommandFails
     THEN /\ uci' = [uci EXCEPT !.pc = "returned", !.err = TRUE]
          /\ engineTodo' = engineTodo
     ELSE \E script \in HandshakeScripts :
            /\ engineTodo' = engineTodo \o script
            /\ uci' = [pc |-> "reading", err |-> FALSE,
                       from |-> Len(defaultOptions), read |-> <<>>,
                       script |-> script, nameAtCall |-> engName,
                       authorAtCall |-> author, dNameAtCall |-> dName,
                       okSeen |-> uci.okSeen]
  /\ UNCHANGED <<engName, author, dName, defaultOptions, stdoutQ, emitted,
                 crashed, infoParsed>>
  /\ uciFrame

\* the engine writes the next line of its answer
EngineAnswer ==
  /\ ~crashed
  /\ engineTodo # <<>>
  /\ stdoutQ' = Append(stdoutQ, Head(engineTodo))
  /\ engineTodo' = Tail(engineTodo)
  /\ emitted' = emitted + 1
  /\ UNCHANGED <<engName, author, dName, defaultOptions, uci, nUCI, crashed,
                 infoParsed>>
  /\ uciFrame

\* ReadString returns a line to UCI() (line 204) and the loop body runs on
\* it; on uciok the loop ends, the display name is settled and UCI() returns
UCIRead ==
  /\ ~crashed
  /\ uci.pc = "reading"
  /\ stdoutQ # <<>>
  /\ stdoutQ' = Tail(stdoutQ)
  /\ LET r == UCILine(Head(stdoutQ),
                      [name |-> engName, author |-> author,
                       defaultOptions |-> defaultOptions])
     IN /\ engName' = r.name
        /\ author' = r.author
        /\ defaultOptions' = r.defaultOptions
        /\ crashed' = r.panic
        /\ dName' = IF r.ok THEN DefaultDName(dName, engName) ELSE dName
        /\ uci' = [uci EXCEPT !.read = Append(@, Head(stdoutQ)),
                              !.pc = IF r.ok THEN "returned" ELSE @,
                              !.okSeen = @ \/ r.ok]
  /\ UNCHANGED <<engineTodo, nUCI, emitted, infoParsed>>
  /\ uciFrame

\* SetDisplayName (lines 238-240), called by the thread that calls UCI()
SetDisplayName(displayName) ==
  /\ ~crashed
  /\ uci.pc # "reading"
  /\ dName' = displayName
  /\ UNCHANGED <<engName, author, defaultOptions, uci, engineTodo, nUCI,
                 stdoutQ, emitted, crashed, infoParsed>>
  /\ uciFrame

InitOfUCI ==
  /\ dName \in DisplayNames
  /\ engName = "" /\ author = "" /\ defaultOptions = <<>>
  /\ uci = UCIIdle /\ engineTodo = <<>> /\ nUCI = 0
  /\ oline = <<>> /\ ostate = "done"
  /\ consumed = <<>> /\ IdleReady /\ IdleQuit /\ IdleTail
  /\ IdleCore /\ IdleRendezvous
  /\ InitStream /\ IdleOptions /\ IdleParse /\ IdleInfo

NextUCI ==
  \/ StartInfoCollection
  \/ EngineAnswer
  \/ ReaderRead
  \/ UCICall
  \/ UCIRead
  \/ \E displayName \in DisplayNames : SetDisplayName(displayName)

SpecUCI == InitOfUCI /\ [][NextUCI]_vars

\* -------------------------------------------------------------------- C16
UCISucceeded == uci.pc = "returned" /\ ~uci.err

\* C16: UCI() returns success only once uciok has been received after its
\* "uci", and when the engine answers with its id/option lines and uciok the
\* call comes back with exactly those lines applied, also with the reader
\* goroutine running on the same stdout: a successful call has read the
\* whole answer, and a call is never left reading when the whole answer has
\* been written and taken.
C16_HandshakeCompletes ==
  /\ UCISucceeded =>
       /\ uci.read # <<>>
       /\ uci.read[Len(uci.read)] = <<"uciok">>
       /\ uci.read = uci.script
  /\ (uci.pc = "reading" /\ ~crashed) => (engineTodo # <<>> \/ stdoutQ # <<>>)

\* -------------------------------------------------------------------- C17
\* the options of the option lines among ls, in order
RECURSIVE OptionsOf(_)
OptionsOf(ls) ==
  IF ls = <<>> THEN <<>>
  ELSE IF HasPrefix(Head(ls), "option")
  THEN <<parseUCILine(Tail(Head(ls)))>> \o OptionsOf(Tail(ls))
  ELSE OptionsOf(Tail(ls))

\* the text of the last "id <key> ..." line among ls, dflt when there is none
RECURSIVE IdText(_, _, _)
IdText(ls, key, dflt) ==
  IF ls = <<>> THEN dflt
  ELSE LET l == ls[Len(ls)] IN
       IF Len(l) >= 2 /\ l[1] = "id" /\ l[2] = key
       THEN Join(SubSeq(l, 3, Len(l)))
       ELSE IdText(SubSeq(ls, 1, Len(ls) - 1), key, dflt)

\* C17: after a handshake default_options has gained one entry for each
\* option line received between "uci" and "uciok", in the order received,
\* and name and author are the text of the id name and id author lines.
C17_HandshakeRecordsOptionsInOrder ==
  UCISucceeded =>
    /\ SubSeq(defaultOptions, uci.from + 1, Len(defaultOptions)) =
         OptionsOf(uci.read)
    /\ Len(defaultOptions) = uci.from + Len(OptionsOf(uci.read))
    /\ engName = IdText(uci.read, "name", uci.nameAtCall)
    /\ author = IdText(uci.read, "author", uci.authorAtCall)

\* scenario S6 on a fresh session
C17_Witness ==
  /\ UCISucceeded
  /\ nUCI = 1
  /\ uci.read = <<<<"id", "name", "Foo", "1.0">>, <<"id", "author", "Bar">>,
                  <<"option", "name", "Hash", "type", "spin", "default", "16">>,
                  <<"uciok">>>>
  /\ engName = "Foo 1.0"
  /\ author = "Bar"
  /\ defaultOptions =
       <<[ZeroEngOption EXCEPT !.Name = "Hash", !.Type = "spin", !.Default = "16"]>>

\* -------------------------------------------------------------------- C18
\* C18: once uciok has been observed default_options never changes again,
\* whatever the caller (a repeated UCI() included) or the engine does.
C18_DefaultOptionsFrozenAfterUciok ==
  [][uci.okSeen => defaultOptions' = defaultOptions]_vars

\* -------------------------------------------------------------------- C19
\* C19: when uciok is observed display_name becomes the engine's name if and
\* only if display_name was empty at that point; no other step of the
\* handshake touches it, so a non-empty display name given at creation or by
\* SetDisplayName is never overwritten.
C19_DisplayNameDefaultedIffEmpty ==
  [][uci.pc = "reading" =>
       dName' = IF uci'.pc = "returned" /\ ~uci'.err /\ dName = ""
                THEN engName ELSE dName]_vars

\* a handshake has told the name "Foo 1.0" and left the caller's name alone
C19_Witness ==
  /\ UCISucceeded
  /\ engName = "Foo 1.0"
  /\ uci.dNameAtCall = "Mine"
  /\ dName = "Mine"

\* ====================================================================
\* SendQuit (src/uci.go lines 275-285) beside the reader goroutine
\* ====================================================================
QuitLines == {<<"info", "score", "cp", "12">>, <<"bestmove", "e2e4">>}

quitFrameBase ==
  UNCHANGED <<streamVars, optVars, parseVars, infoVars, readyVars, uciVars,
              tailVars, consumed, waiter, nBest, fresh, nRecv, infoBuf, infoBufCap,
              lastBestMove, started, bmChan>>
quitFrame == quitFrameBase /\ UNCHANGED <<nQuit, wc>>

\* the engine writes a line while it is alive
EngineEmitQuit ==
  /\ ~crashed
  /\ engine # "exited"
  /\ emitted < MaxQuitEmit
  /\ \E line \in QuitLines : stdoutQ' = Append(stdoutQ, line)
  /\ emitted' = emitted + 1
  /\ UNCHANGED <<quit, engine, pipeClosed, reader, crashed>>
  /\ quitFrame

\* the engine exits on its own
EngineDies ==
  /\ ~crashed
  /\ engine = "running"
  /\ engine' = "exited"
  /\ UNCHANGED <<quit, pipeClosed, stdoutQ, emitted, reader, crashed>>
  /\ quitFrame

\* SendQuit up to cmd.Wait (lines 276-278): "quit" is written, or the write
\* fails and SendQuit returns its error
SendQuitWrite ==
  /\ ~crashed
  /\ quit.pc \in {"idle", "returned"}
  /\ nQuit < MaxQuitCalls
  /\ nQuit' = nQuit + 1
  /\ LET call == [pc |-> "wait", err |-> FALSE, startedAtCall |-> started,
                  exitedAtCall |-> engine = "exited",
                  afterSuccess |-> quit.afterSuccess
                                   \/ (quit.pc = "returned" /\ ~quit.err)]
     IN IF SendCommandFails
        THEN /\ quit' = [call EXCEPT !.pc = "returned", !.err = TRUE]
             /\ engine' = engine
        ELSE /\ quit' = call
             /\ engine' = "quitting"
  /\ UNCHANGED <<pipeClosed, stdoutQ, emitted, reader, crashed, wc>>
  /\ quitFrameBase

\* the engine obeys "quit"
EngineExit ==
  /\ ~crashed
  /\ engine = "quitting"
  /\ engine' = "exited"
  /\ UNCHANGED <<quit, pipeClosed, stdoutQ, emitted, reader, crashed>>
  /\ quitFrame

\* e.cmd.Wait() (lines 280-284) returns once the engine has exited: it
\* closes the read end of the stdout pipe, and what the reader has not read
\* by then is gone; a Wait after a Wait returns an error
SendQuitWait ==
  /\ ~crashed
  /\ quit.pc = "wait"
  /\ engine = "exited"
  /\ pipeClosed' = TRUE
  /\ stdoutQ' = <<>>
  /\ quit' = [quit EXCEPT !.pc = "returned", !.err = pipeClosed]
  /\ UNCHANGED <<engine, emitted, reader, crashed>>
  /\ quitFrame

\* WaitCollection up to its select (lines 367-373)
WaitCollectionCall ==
  /\ ~crashed
  /\ wc.pc \in {"idle", "returned"}
  /\ wc' = IF ~started
           THEN [pc |-> "returned", err |-> TRUE, readerDoneAtCall |-> FALSE]
           ELSE [pc |-> "select", err |-> FALSE,
                 readerDoneAtCall |-> reader.pc = "done"]
  /\ UNCHANGED <<quit, engine, pipeClosed, stdoutQ, emitted, reader, crashed,
                 nQuit>>
  /\ quitFrameBase

\* case <-timer (lines 377-378); nothing sends on e.chans.infoDone or closes
\* it, so the other case of the select never comes
WaitCollectionTimeout ==
  /\ ~crashed
  /\ wc.pc = "select"
  /\ wc' = [wc EXCEPT !.pc = "returned", !.err = TRUE]
  /\ UNCHANGED <<quit, engine, pipeClosed, stdoutQ, emitted, reader, crashed,
                 nQuit>>
  /\ quitFrameBase

\* ReadString returns io.EOF to the reader (lines 588-591): the engine has
\* exited and every line has been read
ReaderEOF ==
  /\ ~crashed
  /\ reader.pc = "read"
  /\ engine = "exited"
  /\ ~pipeClosed
  /\ stdoutQ = <<>>
  /\ reader' = [reader EXCEPT !.pc = "done"]
  /\ UNCHANGED <<quit, engine, pipeClosed, stdoutQ, emitted, crashed>>
  /\ quitFrame

\* ReadString fails on the closed pipe with an error that is not io.EOF
\* (lines 592-594): log.Fatalf ends the process
ReaderReadFails ==
  /\ ~crashed
  /\ reader.pc = "read"
  /\ pipeClosed
  /\ crashed' = TRUE
  /\ UNCHANGED <<quit, engine, pipeClosed, stdoutQ, emitted, reader>>
  /\ quitFrame

InitOfQuit ==
  /\ IdleQuit
  /\ consumed = <<>> /\ IdleReady /\ IdleUCI /\ IdleTail
  /\ IdleCore /\ IdleRendezvous
  /\ InitStream /\ IdleOptions /\ IdleParse /\ IdleInfo

NextQuit ==
  \/ StartInfoCollection
  \/ EngineEmitQuit
  \/ ReaderRead
  \/ ReaderDrain
  \/ ReaderPublish
  \/ EngineDies
  \/ SendQuitWrite
  \/ EngineExit
  \/ SendQuitWait
  \/ WaitCollectionCall
  \/ WaitCollectionTimeout
  \/ ReaderEOF
  \/ ReaderReadFails

SpecQuit == InitOfQuit /\ [][NextQuit]_vars

\* C20: SendQuit writes quit, waits until every line the engine has written
\* has been handed to the parser, and only then reaps: when a SendQuit made
\* with the reader running has returned, the reader has taken every line the
\* engine wrote, none was lost to the reap.
C20_QuitDrainsBeforeReap ==
  (quit.pc = "returned" /\ ~quit.err /\ quit.startedAtCall) =>
    Len(consumed) = emitted

\* -------------------------------------------------------------------- C21
\* C21: a SendQuit made after the engine has exited on its own still reaps
\* it (when the call has returned the process has been waited for, whether
\* or not the write of quit succeeded), and a SendQuit made after one that
\* succeeded returns an error without blocking.
C21_QuitReapsExitedEngine ==
  /\ (quit.pc = "returned" /\ quit.exitedAtCall /\ ~quit.afterSuccess) =>
       pipeClosed
  /\ quit.afterSuccess => (quit.pc = "returned" /\ quit.err)

\* ------------------------------------------------------------------------
\* NewEngineFromPath, parseConfig and NewEnginesFromConfig (lines 606-710)

\* the paths a config entry can give: none, an executable, a file that does
\* not exist
CfgPaths == {"", "engine", "nofile"}

CfgCaps == {-1, 0}

\* the UCIOptions lists of a config entry
CfgOptions ==
  { <<>>,
    <<[Name |-> "Hash", Value |-> "1"]>>,
    <<[Name |-> "Hash", Value |-> "1"], [Name |-> "", Value |-> "1"]>> }

CfgEntries == [Path : CfgPaths, InfoBufCap : CfgCaps, UCIOptions : CfgOptions]

\* what ioutil.ReadFile and json.Unmarshal make of the file
CfgFiles == {"unreadable", "malformed", "ok"}

\* the inner loop of lines 667-671 over one entry's options
BadOption(opts) ==
  \E k \in 1..Len(opts) : opts[k].Name = "" /\ opts[k].Value # ""

\* the check stopping after the first entry
ValidateConfig_firstOnly(entries) ==
  IF entries = <<>> THEN ""
  ELSE IF Head(entries).Path = "" THEN "nopath"
  ELSE IF \E k \in 1..Len(Head(entries).UCIOptions) :
            Head(entries).UCIOptions[k].Name = ""
            /\ Head(entries).UCIOptions[k].Value # "" THEN "noname"
  ELSE ""

\* the checking loop of lines 662-672: the error of the first entry that
\* fails, "" when every entry passes
RECURSIVE ValidateConfig(_)
ValidateConfig(entries) ==
  IF entries = <<>> THEN ""
  ELSE IF Head(entries).Path = "" THEN "nopath"
  ELSE IF BadOption(Head(entries).UCIOptions) THEN "noname"
  ELSE ValidateConfig(Tail(entries))

\* parseConfig (lines 649-675): the error it returns, "" for nil
parseConfig(c) ==
  IF c.file = "unreadable" THEN "read"
  ELSE IF c.file = "malformed" THEN "json"
  ELSE ValidateConfig(c.entries)

\* NewEngineFromPath (lines 606-635): whether it returns an error, whether
\* it returns an Engine, and whether cmd.Start has started a process. The
\* capacity is looked at on line 628, after Start on line 620.
NewEngineFromPath(path, infoBufCapArg) ==
  IF path # "engine"
  THEN [called |-> TRUE, err |-> TRUE, eng |-> FALSE, proc |-> FALSE]
  ELSE IF infoBufCapArg < 0
  THEN [called |-> TRUE, err |-> TRUE, eng |-> FALSE, proc |-> TRUE]
  ELSE [called |-> TRUE, err |-> FALSE, eng |-> TRUE, proc |-> TRUE]

cfgFrame ==
  UNCHANGED <<streamVars, optVars, coreVars, parseVars, infoVars, rvVars,
              consumed, readyVars, uciVars, quitVars, concVars,
              restartVars>>

\* lines 679-684: the whole file is parsed and checked first
ParseConfigStep ==
  /\ cfg.pc = "parse"
  /\ LET err == parseConfig(config)
     IN cfg' = IF err # "" THEN [cfg EXCEPT !.pc = "done", !.err = err]
               ELSE IF config.entries = <<>> THEN [cfg EXCEPT !.pc = "done"]
               ELSE [cfg EXCEPT !.pc = "spawn"]
  /\ UNCHANGED config
  /\ cfgFrame

\* lines 687-690: the engine of entry i is created
NewEngineStep ==
  /\ cfg.pc = "spawn"
  /\ LET c == config.entries[cfg.i + 1]
         r == NewEngineFromPath(c.Path, c.InfoBufCap)
     IN cfg' = [cfg EXCEPT !.lastNew = r,
                           !.spawned = @ + (IF r.proc THEN 1 ELSE 0),
                           !.pc = IF r.err THEN "done" ELSE "setup",
                           !.err = IF r.err THEN "create" ELSE @]
  /\ UNCHANGED config
  /\ cfgFrame

\* lines 692-706: UCI, SendOption for every option and WaitReadyOK; any of
\* them failing returns nil and the error, otherwise the engine is appended
EngineSetupStep ==
  /\ cfg.pc = "setup"
  /\ \E ok \in BOOLEAN :
       cfg' = IF ~ok THEN [cfg EXCEPT !.pc = "done", !.err = "setup"]
              ELSE [cfg EXCEPT !.engs = @ + 1, !.i = @ + 1,
                               !.pc = IF cfg.i + 1 < Len(config.entries)
                                      THEN "spawn" ELSE "done"]
  /\ UNCHANGED config
  /\ cfgFrame

InitOfConfig ==
  /\ config \in [file : CfgFiles, entries : SeqsUpTo(CfgEntries, MaxEngines)]
  /\ config.file # "ok" => config.entries = <<>>
  /\ cfg = [CfgIdle EXCEPT !.pc = "parse"]
  /\ IdleConc /\ IdleRestart
  /\ consumed = <<>> /\ IdleReady /\ IdleUCI /\ IdleQuit
  /\ IdleCore /\ IdleRendezvous
  /\ InitStream /\ IdleOptions /\ IdleParse /\ IdleInfo

NextConfig ==
  \/ ParseConfigStep
  \/ NewEngineStep
  \/ EngineSetupStep

SpecConfig == InitOfConfig /\ [][NextConfig]_vars

\* -------------------------------------------------------------------- C22
\* C22: whenever NewEngineFromPath returns an error it returns no Engine and
\* the call has left no started process behind.
C22_FailedCreationLeavesNothing ==
  (cfg.lastNew.called /\ cfg.lastNew.err) =>
    (~cfg.lastNew.eng /\ ~cfg.lastNew.proc)

\* -------------------------------------------------------------------- C23
\* C23: when the config file cannot be read or parsed, or any entry has an
\* empty path or an option with a value and no name, NewEnginesFromConfig
\* ends with an error, returns no engine and has started no process; for an
\* unreadable file the error is the read error.
C23_ConfigValidatedBeforeSpawn ==
  LET invalid ==
        \/ config.file # "ok"
        \/ \E k \in 1..Len(config.entries) :
             \/ config.entries[k].Path = ""
             \/ \E o \in 1..Len(config.entries[k].UCIOptions) :
                  /\ config.entries[k].UCIOptions[o].Name = ""
                  /\ config.entries[k].UCIOptions[o].Value # ""
  IN /\ invalid =>
          /\ cfg.spawned = 0 /\ cfg.engs = 0
          /\ cfg.pc \in {"parse", "done"}
          /\ cfg.pc = "done" =>
               cfg.err \in {"read", "json", "nopath", "noname"}
     /\ (config.file = "unreadable" /\ cfg.pc = "done") => cfg.err = "read"

C23_Witness ==
  /\ cfg.pc = "done"
  /\ Len(config.entries) = 2
  /\ config.entries[1].Path = "engine" /\ config.entries[1].InfoBufCap = 0
  /\ ~BadOption(config.entries[1].UCIOptions)
  /\ BadOption(config.entries[2].UCIOptions)
  /\ cfg.err = "noname" /\ cfg.spawned = 0

\* -------------------------------------------------------------------- C25
\* C25: parseStdout of a line whose first token is none of id, option,
\* uciok, readyok, bestmove, info (a banner, an empty line) leaves infoBuf,
\* lastBestMove and the bestmove channel as they were.
C25_ChatterLineIgnored ==
  (pstate = "done" /\ pline \in ChatterLines) =>
    /\ infoBuf = <<>>
    /\ ~crashed
    /\ \/ lastBestMove = ZeroBestMove /\ bmChan = <<>>
       \/ lastBestMove = OldBestMove /\ bmChan = <<OldBestMove>>

\* -------------------------------------------------------------------- C28
\* C28: infoBuf is always a contiguous suffix of the sequence of Infos parsed
\* without error, in the order the engine wrote them: nothing is reordered
\* or duplicated and only the oldest entries are ever dropped.
C28_InfoBufIsSuffixOfParsed ==
  /\ Len(infoBuf) <= Len(infoParsed)
  /\ infoBuf = LastN(infoParsed, Len(infoBuf))

C28_Witness ==
  /\ infoBufCap = 1
  /\ Len(infoParsed) = 3
  /\ Len(infoBuf) = 2
  /\ infoParsed[1] # infoParsed[2] /\ infoParsed[2] # infoParsed[3]

\* -------------------------------------------------------------------- C30
\* C30: a SendOption whose write to the engine's stdin fails returns the
\* error and leaves setOptions exactly as it was before the call.
C30_FailedWriteLeavesSetOptions ==
  [][stdinBroken => (optErr' /\ setOptions' = setOptions)]_vars

C30_Witness ==
  /\ stdinBroken
  /\ optErr
  /\ Len(setOptions) = 2

\* ------------------------------------------------------------------------
\* SendOption called from several goroutines.  Nothing in SendOption takes
\* the Engine's lock: the assignment of line 324 is a read of e.setOptions
\* (the argument of the closure) followed by a write of the merged slice,
\* and the reads and writes of different callers interleave freely.

\* lines 293-309: the command is written and the new entry is built
ConcSendOption(t, name, value) ==
  /\ thr[t].pc = "idle"
  /\ Len(optHistory) + Cardinality({u \in ConcThreads : thr[u].pc # "idle"})
       < MaxOptCalls
  /\ IF SendCommandFails
     THEN optErr' = TRUE /\ thr' = thr
     ELSE /\ optErr' = optErr
          /\ thr' = [thr EXCEPT ![t] = [pc |-> "load",
                                        new |-> [Name |-> name, Value |-> value],
                                        prev |-> <<>>]]
  /\ UNCHANGED <<setOptions, optHistory, stdinBroken>>
  /\ UNCHANGED <<consumed, readyVars, uciVars, quitVars, cfgVars, restartVars>>
  /\ UNCHANGED <<streamVars, coreVars, parseVars, infoVars, rvVars>>

\* line 324, right-hand side: e.setOptions is read and merged
ConcLoad(t) ==
  /\ thr[t].pc = "load"
  /\ thr' = [thr EXCEPT ![t].pc = "store", ![t].prev = setOptions]
  /\ UNCHANGED <<setOptions, optHistory, stdinBroken, optErr>>
  /\ UNCHANGED <<consumed, readyVars, uciVars, quitVars, cfgVars, restartVars>>
  /\ UNCHANGED <<streamVars, coreVars, parseVars, infoVars, rvVars>>

\* line 324, assignment, and the return of line 326
ConcStore(t) ==
  /\ thr[t].pc = "store"
  /\ setOptions' = mergeSetOptions(thr[t].prev, thr[t].new)
  /\ optHistory' = Append(optHistory, <<thr[t].new.Name, thr[t].new.Value>>)
  /\ optErr' = FALSE
  /\ thr' = [thr EXCEPT ![t] = ThreadIdle]
  /\ UNCHANGED stdinBroken
  /\ UNCHANGED <<consumed, readyVars, uciVars, quitVars, cfgVars, restartVars>>
  /\ UNCHANGED <<streamVars, coreVars, parseVars, infoVars, rvVars>>

InitOfOptConc ==
  /\ IdleOptions
  /\ InitStream /\ IdleCore /\ IdleParse /\ IdleInfo /\ IdleRendezvous
  /\ IdleExt

NextOptConc ==
  \/ \E t \in ConcThreads, name \in OptNames, value \in OptValues :
       ConcSendOption(t, name, value)
  \/ \E t \in ConcThreads : ConcLoad(t)
  \/ \E t \in ConcThreads : ConcStore(t)

SpecOptConc == InitOfOptConc /\ [][NextOptConc]_vars

\* -------------------------------------------------------------------- C26
\* C26: with SendOption called from several threads, once every call has
\* returned setOptions holds exactly one entry for each name that was
\* applied: no applied name is missing and none appears twice.
C26_ConcurrentSendOptionNoLostUpdate ==
  (\A t \in ConcThreads : thr[t].pc = "idle") =>
    /\ {setOptions[i].Name : i \in 1..Len(setOptions)}
         = {optHistory[k][1] : k \in 1..Len(optHistory)}
    /\ \A i, j \in 1..Len(setOptions) :
         i # j => setOptions[i].Name # setOptions[j].Name

\* ------------------------------------------------------------------------
\* StartInfoCollection called more than once (lines 580-600).  Every call
\* assigns three new channels to e.chans and starts one more goroutine; the
\* goroutines all read e.stdout and all publish, through parseStdout, to
\* whatever e.chans.bestMove is when they get there.  The engine writes
\* "bestmove e2e4" lines.

restartFrame ==
  UNCHANGED <<streamVars, optVars, coreVars, parseVars, infoVars, rvVars,
              consumed, readyVars, uciVars, quitVars, cfgVars, concVars>>

\* lines 580-598: nothing looks at whether a reader is already running
StartInfoCollectionAgain ==
  /\ rst.gen < MaxStarts
  /\ rst' = [rst EXCEPT !.gen = @ + 1, !.readers = @ + 1,
                        !.ch = Append(@, 0)]
  /\ restartFrame

RestartEngineEmit ==
  /\ rst.sent < MaxEmit
  /\ rst' = [rst EXCEPT !.q = @ + 1, !.sent = @ + 1]
  /\ restartFrame

\* one turn of reader goroutine k on a bestmove line (lines 587, 595 and
\* 425-453): the channel of the newest set is drained and the move goes to
\* a receiver waiting on that channel, into its buffer otherwise
RestartReaderTurn(k) ==
  /\ rst.q > 0
  /\ rst' = IF rst.w.pc = "blocked" /\ rst.w.gen = rst.gen
            THEN [rst EXCEPT !.q = @ - 1, !.by = k, !.ch[rst.gen] = 0,
                             !.w = [pc |-> "returned", gen |-> rst.gen,
                                    err |-> FALSE]]
            ELSE [rst EXCEPT !.q = @ - 1, !.by = k, !.ch[rst.gen] = 1]
  /\ restartFrame

\* WaitBestMove (lines 383-391): the select waits on the channel that
\* e.chans.bestMove holds when the call gets there
RestartWaitBestMove ==
  /\ rst.w.pc \in {"idle", "returned"}
  /\ rst' = IF rst.gen = 0
            THEN [rst EXCEPT !.w = [pc |-> "returned", gen |-> 0, err |-> TRUE]]
            ELSE IF rst.ch[rst.gen] > 0
            THEN [rst EXCEPT !.ch[rst.gen] = @ - 1,
                             !.w = [pc |-> "returned", gen |-> rst.gen,
                                    err |-> FALSE]]
            ELSE [rst EXCEPT !.w = [pc |-> "blocked", gen |-> rst.gen,
                                    err |-> FALSE]]
  /\ restartFrame

\* lines 393-394
RestartWaitTimeout ==
  /\ rst.w.pc = "blocked"
  /\ rst' = [rst EXCEPT !.w = [@ EXCEPT !.pc = "returned", !.err = TRUE]]
  /\ restartFrame

InitOfRestart ==
  /\ IdleCore /\ IdleRendezvous
  /\ InitStream /\ IdleOptions /\ IdleParse /\ IdleInfo
  /\ IdleExt

NextRestart ==
  \/ StartInfoCollectionAgain
  \/ RestartEngineEmit
  \/ \E k \in 1..rst.readers : RestartReaderTurn(k)
  \/ RestartWaitBestMove
  \/ RestartWaitTimeout

SpecRestart == InitOfRestart /\ [][NextRestart]_vars

\* -------------------------------------------------------------------- C27
\* C27: a session never has more than one reader goroutine consuming the
\* engine's stdout, however often StartInfoCollection is called, and the
\* channel a WaitBestMove blocks on is the one the reader publishes to.
C27_AtMostOneReader ==
  /\ rst.readers <= 1
  /\ rst.w.pc = "blocked" => rst.w.gen = rst.gen

\* ------------------------------------------------------------------------
\* A session whose stdin pipe breaks while the reader goroutine runs: the
\* reader of StartInfoCollection, the engine's lines, and SendOption as the
\* command method that meets the write error.

InitOfFault ==
  /\ IdleCore /\ IdleRendezvous
  /\ InitStream /\ IdleOptions /\ IdleParse /\ IdleInfo
  /\ IdleExt

NextFault ==
  \/ StartInfoCollection
  \/ EngineEmit
  \/ ReaderRead
  \/ ReaderDrain
  \/ ReaderPublish
  \/ StdinBreaks
  \/ SendOption("Hash", "1")

SpecFault == InitOfFault /\ [][NextFault]_vars

\* -------------------------------------------------------------------- C29
\* C29: once a command method has returned the error of a failed write to
\* the engine's stdin, the reader goroutine has been terminated: it hands no
\* further line of the engine to the parser.
C29_ReaderStopsAfterIOError ==
  [][optErr => consumed' = consumed]_vars

\* -------------------------------------------------------------------- C31
\* C31: with the one reader goroutine, the bestMove channel never holds more
\* than one value, and it is empty whenever the reader is about to publish,
\* so the send after the drain loop never blocks on the full buffer.
C31_BestMoveChanHoldsAtMostOne ==
  /\ Len(bmChan) <= 1
  /\ reader.pc = "publish" => bmChan = <<>>

\* two bestmove lines parsed and published with no caller receiving
C31_Witness ==
  /\ ~crashed
  /\ nBest = 2
  /\ nRecv = 0
  /\ waiter.pc = "idle"
  /\ reader.pc = "read"
  /\ Len(bmChan) = 1

\* -------------------------------------------------------------------- C24
\* C24: a WaitCollection called once the reader goroutine has ended on the
\* engine's EOF returns success, not the timeout error.
C24_WaitCollectionSeesReaderEnd ==
  (wc.pc = "returned" /\ wc.readerDoneAtCall) => ~wc.err

====
